---- MODULE Spec2Model ----
(***************************************************************************)
(* The olm session core (src/src/session.cpp): outbound and inbound        *)
(* initiation, prekey matching, encrypt / decrypt delegation to the        *)
(* embedded ratchet, and session persistence.                              *)
(*                                                                         *)
(* Keys are symbolic.  A private scalar is a small positive integer, the   *)
(* public key of scalar k is k + 100, and a Diffie-Hellman output is the   *)
(* ordered pair of the two scalars involved, so that                       *)
(* DH(a, Pub(b)) = DH(b, Pub(a)).  Key-derivation outputs are sequences of *)
(* integers that record what went into the derivation.                     *)
(***************************************************************************)
EXTENDS Integers, Sequences, FiniteSets, TLC

\* ------------------------------------------------------------------------
\* Program constants
\* ------------------------------------------------------------------------
KEY_LENGTH == 32

PROTOCOL_VERSION == 3

\* std::size_t(-1), the value every failing operation returns
ERROR_SENTINEL == -1

\* ------------------------------------------------------------------------
\* Bounds of the model
\* ------------------------------------------------------------------------
\* messages a run may put on the wire
MaxWire == 1

\* messages an interoperability run (SpecInterop) may put on the wire
MaxInterop == 4

\* ------------------------------------------------------------------------
\* Key primitives (olm/crypto.hh)
\* ------------------------------------------------------------------------
Pub(seed) == seed + 100

Curve25519KeyPair(seed) == [public_key |-> Pub(seed), private_key |-> seed]

\* generate_key(random, key_pair): the key pair of a 32-byte seed
generate_key(seed) == Curve25519KeyPair(seed)

\* curve25519_shared_secret(our key pair, their public key): 32 bytes
curve25519_shared_secret(our_key, their_key) ==
    LET a == our_key.private_key
        b == their_key - 100
    IN  IF a <= b THEN <<a, b>> ELSE <<b, a>>

\* olm::unset on a key pair and on the 96-byte secret
UnsetKeyPair == [public_key |-> 0, private_key |-> 0]

UnsetSecret == <<0, 0, 0, 0, 0, 0>>

\* ------------------------------------------------------------------------
\* Accounts (olm/account.hh): an identity key pair and one-time keys by id
\* ------------------------------------------------------------------------
Accounts == {"alice", "bob"}

AccountIdentityKey(a) ==
    IF a = "alice" THEN [id |-> 1, key |-> Curve25519KeyPair(1)]
                   ELSE [id |-> 2, key |-> Curve25519KeyPair(2)]

\* the one-time keys an account holds: LocalKey records (id, key pair)
AccountOneTimeKeys(a) ==
    IF a = "alice" THEN {[id |-> 1, key |-> Curve25519KeyPair(3)]}
                   ELSE {[id |-> 1, key |-> Curve25519KeyPair(4)]}

\* Account::lookup_key(id): the set holding the key found, empty when none
lookup_key(a, id) == {k \in AccountOneTimeKeys(a) : k.id = id}

\* ------------------------------------------------------------------------
\* Wire formats (olm/message.hh).  A buffer is a record: kind says which
\* encoder wrote it, pk is the prekey envelope, msg the ratchet message.
\* A field of a decoded reader is a (len, val) pair; len = 0 is the null
\* pointer.
\* ------------------------------------------------------------------------
NoField == [len |-> 0, val |-> 0]

NoCipher == [key |-> <<>>, index |-> 0, plain |-> <<>>]

NoMessage ==
    [present |-> FALSE, version |-> 0, ratchet_key |-> NoField,
     has_counter |-> FALSE, counter |-> 0,
     ciphertext_length |-> 0, ciphertext |-> NoCipher,
     length |-> 0]

NoPreKey ==
    [version |-> 0, has_one_time_key_id |-> FALSE, one_time_key_id |-> 0,
     base_key |-> NoField, identity_key |-> NoField, message |-> NoMessage]

EmptyBytes == [kind |-> "junk", pk |-> NoPreKey, msg |-> NoMessage]

VarintLength(n) == IF n < 128 THEN 1 ELSE 2

\* encode_message_length(counter, ratchet_key_length, ciphertext_length,
\* mac_length)
encode_message_length(counter, key_length, ciphertext_length, mac_length) ==
    1 + (1 + VarintLength(counter))
      + (1 + VarintLength(key_length) + key_length)
      + (1 + VarintLength(ciphertext_length) + ciphertext_length)
      + mac_length

\* encode_one_time_key_message_length(id, identity_key_length,
\* base_key_length, message_length)
encode_one_time_key_message_length(id, identity_len, base_len, message_len) ==
    1 + (1 + VarintLength(id))
      + (1 + VarintLength(identity_len) + identity_len)
      + (1 + VarintLength(base_len) + base_len)
      + (1 + VarintLength(message_len) + message_len)

\* decode_one_time_key_message: the reader of a buffer.  Anything that is
\* not a prekey envelope leaves every pointer null and every flag false.
decode_one_time_key_message(bytes) ==
    IF bytes.kind = "prekey" THEN bytes.pk ELSE NoPreKey

\* decode_message: the reader of a ratchet message
decode_message(bytes) ==
    IF bytes.kind = "message" THEN bytes.msg ELSE NoMessage

\* the buffer a reader's message field points at
MessageBytes(m) == [kind |-> "message", pk |-> NoPreKey, msg |-> m]

\* ------------------------------------------------------------------------
\* Error codes
\* ------------------------------------------------------------------------
ErrorCodes ==
    {"SUCCESS", "NOT_ENOUGH_RANDOM", "OUTPUT_BUFFER_TOO_SMALL",
     "BAD_MESSAGE_VERSION", "BAD_MESSAGE_FORMAT", "BAD_MESSAGE_MAC",
     "BAD_MESSAGE_KEY_ID"}

\* ------------------------------------------------------------------------
\* The ratchet (olm/ratchet.hh), to the extent the session consumes it.
\* A chain key is (key, index): the key the chain was derived with and how
\* many times it has advanced.  Message i of a chain is encrypted and
\* authenticated under (key, i).
\* ------------------------------------------------------------------------
\* ratchet_cipher.mac_length()
mac_length == 8

NewRatchet ==
    [root_key |-> <<>>, sender_chain |-> <<>>, receiver_chains |-> <<>>,
     skipped_message_keys |-> {}, last_error |-> "SUCCESS"]

\* HKDF of the shared secret into the root key and the first chain key
kdf_root(shared_secret) ==
    [root_key |-> shared_secret \o <<0>>,
     chain_key |-> [key |-> shared_secret \o <<1>>, index |-> 0]]

\* HKDF of the root key and a ratchet DH output into the next root key and
\* chain key
kdf_ratchet(root_key, dh) ==
    [root_key |-> root_key \o dh \o <<0>>,
     chain_key |-> [key |-> root_key \o dh \o <<1>>, index |-> 0]]

initialise_as_alice(ratchet, shared_secret, our_ratchet_key) ==
    LET k == kdf_root(shared_secret)
    IN  [root_key |-> k.root_key,
         sender_chain |-> <<[ratchet_key |-> our_ratchet_key,
                             chain_key |-> k.chain_key]>>,
         receiver_chains |-> <<>>,
         skipped_message_keys |-> {},
         last_error |-> ratchet.last_error]

initialise_as_bob(ratchet, shared_secret, their_ratchet_key) ==
    LET k == kdf_root(shared_secret)
    IN  [root_key |-> k.root_key,
         sender_chain |-> <<>>,
         receiver_chains |-> <<[ratchet_key |-> their_ratchet_key,
                                chain_key |-> k.chain_key]>>,
         skipped_message_keys |-> {},
         last_error |-> ratchet.last_error]

\* whether one of the two initialisations has run
RatchetInitialised(ratchet) == ratchet.root_key # <<>>

ratchet_encrypt_random_length(ratchet) ==
    IF Len(ratchet.sender_chain) = 0 THEN KEY_LENGTH ELSE 0

\* the cipher pads the plaintext to the next multiple of 16 bytes
encrypt_ciphertext_length(plaintext_length) ==
    plaintext_length + 16 - (plaintext_length % 16)

ratchet_encrypt_output_length(ratchet, plaintext_length) ==
    LET counter == IF Len(ratchet.sender_chain) = 0 THEN 0
                   ELSE ratchet.sender_chain[1].chain_key.index
    IN  encode_message_length(
            counter, KEY_LENGTH,
            encrypt_ciphertext_length(plaintext_length), mac_length)

\* Ratchet::encrypt.  random is (length, seed); the result is the ratchet
\* after the call, the value returned and the message written.
ratchet_encrypt(ratchet, plaintext, random, max_output_length) ==
    LET output_length ==
            ratchet_encrypt_output_length(ratchet, Len(plaintext))
        fail(code) ==
            [ratchet |-> [ratchet EXCEPT !.last_error = code],
             result |-> ERROR_SENTINEL, message |-> NoMessage]
    IN  IF random.length < ratchet_encrypt_random_length(ratchet)
        THEN fail("NOT_ENOUGH_RANDOM")
        ELSE IF max_output_length < output_length
        THEN fail("OUTPUT_BUFFER_TOO_SMALL")
        ELSE
        LET fresh == Len(ratchet.sender_chain) = 0
            our_key == generate_key(random.seed)
            k == kdf_ratchet(
                     ratchet.root_key,
                     curve25519_shared_secret(
                         our_key, ratchet.receiver_chains[1].ratchet_key))
            chain == IF fresh
                     THEN [ratchet_key |-> our_key, chain_key |-> k.chain_key]
                     ELSE ratchet.sender_chain[1]
            root == IF fresh THEN k.root_key ELSE ratchet.root_key
        IN  [ratchet |->
                 [ratchet EXCEPT
                     !.root_key = root,
                     !.sender_chain =
                         <<[chain EXCEPT !.chain_key.index = @ + 1]>>],
             result |-> output_length,
             message |->
                 [present |-> TRUE,
                  version |-> PROTOCOL_VERSION,
                  ratchet_key |-> [len |-> KEY_LENGTH,
                                   val |-> chain.ratchet_key.public_key],
                  has_counter |-> TRUE,
                  counter |-> chain.chain_key.index,
                  ciphertext_length |->
                      encrypt_ciphertext_length(Len(plaintext)),
                  ciphertext |-> [key |-> chain.chain_key.key,
                                  index |-> chain.chain_key.index,
                                  plain |-> plaintext],
                  length |-> output_length]]

\* Ratchet::decrypt_max_plaintext_length
ratchet_decrypt_max_plaintext_length(ratchet, bytes) ==
    LET reader == decode_message(bytes)
    IN  IF reader.ciphertext_length = 0
        THEN [ratchet |-> [ratchet EXCEPT !.last_error = "BAD_MESSAGE_FORMAT"],
              result |-> ERROR_SENTINEL]
        ELSE [ratchet |-> ratchet, result |-> reader.ciphertext_length]

\* the message authenticates under chain key `key` at the reader's counter
VerifyMac(reader, key) ==
    /\ reader.ciphertext.key = key
    /\ reader.ciphertext.index = reader.counter

SkippedKeys(ratchet_key, chain_key, counter) ==
    {[ratchet_key |-> ratchet_key, key |-> chain_key.key, index |-> i] :
        i \in chain_key.index .. (counter - 1)}

\* Ratchet::decrypt.  The result is the ratchet after the call, the value
\* returned and the plaintext written.
ratchet_decrypt(ratchet, bytes, max_plaintext_length) ==
    LET reader == decode_message(bytes)
        fail(code) ==
            [ratchet |-> [ratchet EXCEPT !.last_error = code],
             result |-> ERROR_SENTINEL, plaintext |-> <<>>]
        ok(r) ==
            [ratchet |-> r, result |-> Len(reader.ciphertext.plain),
             plaintext |-> reader.ciphertext.plain]
        their_key == reader.ratchet_key.val
        found == {i \in 1..Len(ratchet.receiver_chains) :
                     ratchet.receiver_chains[i].ratchet_key = their_key}
    IN  IF reader.version # PROTOCOL_VERSION
        THEN fail("BAD_MESSAGE_VERSION")
        ELSE IF \/ ~reader.has_counter
                \/ reader.ratchet_key.len = 0
                \/ reader.ciphertext_length = 0
        THEN fail("BAD_MESSAGE_FORMAT")
        ELSE IF max_plaintext_length < reader.ciphertext_length
        THEN fail("OUTPUT_BUFFER_TOO_SMALL")
        ELSE IF reader.ratchet_key.len # KEY_LENGTH
        THEN fail("BAD_MESSAGE_FORMAT")
        ELSE IF found = {}
        THEN \* a new receiver chain, ratcheting the root key forward
            IF Len(ratchet.sender_chain) = 0
            THEN fail("BAD_MESSAGE_MAC")
            ELSE
            LET k == kdf_ratchet(
                         ratchet.root_key,
                         curve25519_shared_secret(
                             ratchet.sender_chain[1].ratchet_key, their_key))
            IN  IF ~VerifyMac(reader, k.chain_key.key)
                THEN fail("BAD_MESSAGE_MAC")
                ELSE ok([ratchet EXCEPT
                        !.root_key = k.root_key,
                        !.sender_chain = <<>>,
                        !.receiver_chains =
                            <<[ratchet_key |-> their_key,
                               chain_key |-> [k.chain_key EXCEPT
                                   !.index = reader.counter + 1]]>> \o @,
                        !.skipped_message_keys =
                            @ \cup SkippedKeys(
                                their_key, k.chain_key, reader.counter)])
        ELSE
            LET i == CHOOSE j \in found : \A l \in found : j <= l
                chain == ratchet.receiver_chains[i]
                skipped == [ratchet_key |-> their_key,
                            key |-> reader.ciphertext.key,
                            index |-> reader.counter]
            IN  IF reader.counter < chain.chain_key.index
                THEN \* an earlier message of the chain: a stored key
                    IF skipped \in ratchet.skipped_message_keys
                       /\ VerifyMac(reader, chain.chain_key.key)
                    THEN ok([ratchet EXCEPT
                            !.skipped_message_keys = @ \ {skipped}])
                    ELSE fail("BAD_MESSAGE_MAC")
                ELSE
                    IF ~VerifyMac(reader, chain.chain_key.key)
                    THEN fail("BAD_MESSAGE_MAC")
                    ELSE ok([ratchet EXCEPT
                            !.receiver_chains[i].chain_key.index =
                                reader.counter + 1,
                            !.skipped_message_keys =
                                @ \cup SkippedKeys(
                                    their_key, chain.chain_key,
                                    reader.counter)])

\* ------------------------------------------------------------------------
\* olm::Session
\* ------------------------------------------------------------------------
\* Session::Session()
NewSession ==
    [ratchet |-> NewRatchet,
     last_error |-> "SUCCESS",
     received_message |-> FALSE,
     alice_identity_key |-> [id |-> 0, key |-> [public_key |-> 0]],
     alice_base_key |-> [public_key |-> 0],
     bob_one_time_key_id |-> 0]

\* a variant that asks for the randomness of one key pair only
new_outbound_session_random_length_one_key == KEY_LENGTH

\* Session::new_outbound_session_random_length
new_outbound_session_random_length == KEY_LENGTH * 2

\* a variant that also resets last_error
RecordOutbound_clearing(session, account_key, base_key, one_time_key) ==
    [session EXCEPT
        !.last_error = "SUCCESS",
        !.received_message = FALSE,
        !.alice_identity_key =
            [id |-> account_key.id,
             key |-> [public_key |-> account_key.key.public_key]],
        !.alice_base_key = [public_key |-> base_key.public_key],
        !.bob_one_time_key_id = one_time_key.id]

\* new_outbound_session, the fields it records
RecordOutbound(session, account_key, base_key, one_time_key) ==
    [session EXCEPT
        !.received_message = FALSE,
        !.alice_identity_key =
            [id |-> account_key.id,
             key |-> [public_key |-> account_key.key.public_key]],
        !.alice_base_key = [public_key |-> base_key.public_key],
        !.bob_one_time_key_id = one_time_key.id]

\* a variant of the outbound secret with the last two DH outputs exchanged
OutboundSharedSecret_exchanged(account_key, base_key, identity_key, one_time_key) ==
    curve25519_shared_secret(account_key.key, one_time_key.key)
    \o curve25519_shared_secret(base_key, one_time_key.key)
    \o curve25519_shared_secret(base_key, identity_key)

\* new_outbound_session, the 96-byte secret: three DH outputs in order
OutboundSharedSecret(account_key, base_key, identity_key, one_time_key) ==
    curve25519_shared_secret(account_key.key, one_time_key.key)
    \o curve25519_shared_secret(base_key, identity_key)
    \o curve25519_shared_secret(base_key, one_time_key.key)

\* Session::new_outbound_session.  identity_key is the remote identity
\* public key, one_time_key the RemoteKey (id, key); random is (length,
\* seeds), seeds[1] standing for bytes 0..32 and seeds[2] for bytes 32..64.
\* secret is what the ratchet was initialised with; locals are the stack
\* values base_key, ratchet_key and shared_secret when the call returns.
new_outbound_session(session, local_account, identity_key, one_time_key, random) ==
    IF random.length < new_outbound_session_random_length
    THEN [session |-> [session EXCEPT !.last_error = "NOT_ENOUGH_RANDOM"],
          result |-> ERROR_SENTINEL,
          secret |-> <<>>,
          locals |-> <<>>]
    ELSE
    LET account_key == AccountIdentityKey(local_account)
        base_key == generate_key(random.seeds[1])
        ratchet_key == generate_key(random.seeds[2])
        shared_secret ==
            OutboundSharedSecret(
                account_key, base_key, identity_key, one_time_key)
        recorded ==
            RecordOutbound(session, account_key, base_key, one_time_key)
    IN  [session |->
            [recorded EXCEPT
                !.ratchet = initialise_as_alice(
                    session.ratchet, shared_secret, ratchet_key)],
         result |-> 0,
         secret |-> shared_secret,
         locals |-> <<UnsetKeyPair, UnsetKeyPair, UnsetSecret>>]

\* a variant that does not ask for the one-time-key id
check_message_fields_no_id(reader) ==
    /\ reader.identity_key.len # 0
    /\ reader.identity_key.len = KEY_LENGTH
    /\ reader.message.present
    /\ reader.base_key.len # 0
    /\ reader.base_key.len = KEY_LENGTH

\* check_message_fields
check_message_fields(reader) ==
    /\ reader.identity_key.len # 0
    /\ reader.identity_key.len = KEY_LENGTH
    /\ reader.message.present
    /\ reader.base_key.len # 0
    /\ reader.base_key.len = KEY_LENGTH
    /\ reader.has_one_time_key_id

\* new_inbound_session, the fields it copies out of the envelope
RecordInbound(session, reader) ==
    [session EXCEPT
        !.alice_identity_key.key.public_key = reader.identity_key.val,
        !.alice_base_key.public_key = reader.base_key.val,
        !.bob_one_time_key_id = reader.one_time_key_id]

\* a variant of the inbound secret with the first two DH outputs in the
\* order of the computations on the responder's side, not the initiator's
InboundSharedSecret_swapped(bob_one_time_key, account_key, session) ==
    curve25519_shared_secret(
        account_key.key, session.alice_base_key.public_key)
    \o curve25519_shared_secret(
        bob_one_time_key.key, session.alice_identity_key.key.public_key)
    \o curve25519_shared_secret(
        bob_one_time_key.key, session.alice_base_key.public_key)

\* new_inbound_session, the 96-byte secret: three DH outputs in order
InboundSharedSecret(bob_one_time_key, account_key, session) ==
    curve25519_shared_secret(
        bob_one_time_key.key, session.alice_identity_key.key.public_key)
    \o curve25519_shared_secret(
        account_key.key, session.alice_base_key.public_key)
    \o curve25519_shared_secret(
        bob_one_time_key.key, session.alice_base_key.public_key)

\* Session::new_inbound_session
new_inbound_session(session, local_account, one_time_key_message) ==
    LET reader == decode_one_time_key_message(one_time_key_message)
        message_reader == decode_message(MessageBytes(reader.message))
        fail(s, code) ==
            [session |-> [s EXCEPT !.last_error = code],
             result |-> ERROR_SENTINEL,
             secret |-> <<>>,
             locals |-> <<>>]
    IN  IF ~check_message_fields(reader)
        THEN fail(session, "BAD_MESSAGE_FORMAT")
        ELSE IF \/ message_reader.ratchet_key.len = 0
                \/ message_reader.ratchet_key.len # KEY_LENGTH
        THEN fail(session, "BAD_MESSAGE_FORMAT")
        ELSE
        LET stored == RecordInbound(session, reader)
            ratchet_key == message_reader.ratchet_key.val
            bob_one_time_key ==
                lookup_key(local_account, stored.bob_one_time_key_id)
        IN  IF bob_one_time_key = {}
            THEN fail(stored, "BAD_MESSAGE_KEY_ID")
            ELSE
            LET one_time == CHOOSE k \in bob_one_time_key : TRUE
                shared_secret ==
                    InboundSharedSecret(
                        one_time, AccountIdentityKey(local_account), stored)
            IN  [session |->
                    [stored EXCEPT
                        !.ratchet = initialise_as_bob(
                            stored.ratchet, shared_secret, ratchet_key)],
                 result |-> 0,
                 secret |-> shared_secret,
                 locals |-> <<shared_secret>>]

\* a variant in which each comparison overwrites the result of the one
\* before, so that only the one-time-key id decides
matches_inbound_session_last_wins(session, one_time_key_message) ==
    LET reader == decode_one_time_key_message(one_time_key_message)
    IN  IF ~check_message_fields(reader)
        THEN FALSE
        ELSE reader.one_time_key_id = session.bob_one_time_key_id

\* Session::matches_inbound_session
matches_inbound_session(session, one_time_key_message) ==
    LET reader == decode_one_time_key_message(one_time_key_message)
    IN  IF ~check_message_fields(reader)
        THEN FALSE
        ELSE /\ reader.identity_key.val
                    = session.alice_identity_key.key.public_key
             /\ reader.base_key.val = session.alice_base_key.public_key
             /\ reader.one_time_key_id = session.bob_one_time_key_id

\* a variant that reports PRE_KEY whatever the flag
encrypt_message_type_always_prekey(session) ==
    "PRE_KEY"

\* Session::encrypt_message_type
encrypt_message_type(session) ==
    IF session.received_message THEN "MESSAGE" ELSE "PRE_KEY"

\* a variant that reports the length of the ratchet message whatever the
\* flag, without the envelope around it
encrypt_message_length_body_only(session, plaintext_length) ==
    ratchet_encrypt_output_length(session.ratchet, plaintext_length)

\* Session::encrypt_message_length
encrypt_message_length(session, plaintext_length) ==
    LET message_length ==
            ratchet_encrypt_output_length(session.ratchet, plaintext_length)
    IN  IF session.received_message
        THEN message_length
        ELSE encode_one_time_key_message_length(
                 session.bob_one_time_key_id, KEY_LENGTH, KEY_LENGTH,
                 message_length)

\* Session::encrypt_random_length
encrypt_random_length(session) ==
    ratchet_encrypt_random_length(session.ratchet)

\* encode_one_time_key_message: the envelope laid out in the output
\* buffer, its identity_key, base_key and message slots still to be filled
encode_one_time_key_message(version, one_time_key_id, identity_key_length, base_key_length, message_length) ==
    [version |-> version,
     has_one_time_key_id |-> TRUE,
     one_time_key_id |-> one_time_key_id,
     base_key |-> [len |-> base_key_length, val |-> 0],
     identity_key |-> [len |-> identity_key_length, val |-> 0],
     message |-> [NoMessage EXCEPT !.present = TRUE,
                                   !.length = message_length]]

\* a variant that copies each key into the other's slot
FillWriter_crossed(session, writer) ==
    [writer EXCEPT
        !.identity_key.val = session.alice_base_key.public_key,
        !.base_key.val = session.alice_identity_key.key.public_key]

\* a variant that fills the identity key slot only
FillWriter_identity_only(session, writer) ==
    [writer EXCEPT
        !.identity_key.val = session.alice_identity_key.key.public_key]

\* encrypt, the two memcpy calls that fill the envelope's key slots
FillWriter(session, writer) ==
    [writer EXCEPT
        !.identity_key.val = session.alice_identity_key.key.public_key,
        !.base_key.val = session.alice_base_key.public_key]

\* a variant that copies the ratchet's error and leaves it on the ratchet
PropagateError_copy_only(session, ratchet) ==
    [session EXCEPT !.last_error = ratchet.last_error, !.ratchet = ratchet]

\* a ratchet call failed: its error moves to the session
PropagateError(session, ratchet) ==
    [session EXCEPT
        !.last_error = ratchet.last_error,
        !.ratchet = [ratchet EXCEPT !.last_error = "SUCCESS"]]

\* a variant of the latch that also resets last_error
Latch_clearing(session, ratchet) ==
    [session EXCEPT !.ratchet = ratchet, !.received_message = TRUE,
                    !.last_error = "SUCCESS"]

\* a variant of the latch that takes the ratchet but leaves the flag
Latch_no_flag(session, ratchet) ==
    [session EXCEPT !.ratchet = ratchet]

\* decrypt, after ratchet.decrypt succeeded
Latch(session, ratchet) ==
    [session EXCEPT !.ratchet = ratchet, !.received_message = TRUE]

\* a variant of the output buffer check that asks for the length of the
\* ratchet message only, without the envelope
OutputBufferTooSmall_body_only(session, plaintext_length, message_length) ==
    message_length
        < ratchet_encrypt_output_length(session.ratchet, plaintext_length)

\* encrypt, the check of the caller's output buffer
OutputBufferTooSmall(session, plaintext_length, message_length) ==
    message_length < encrypt_message_length(session, plaintext_length)

\* a variant that wraps the ratchet message whatever the flag
Frame_always_enveloped(session, writer, body) ==
    [kind |-> "prekey",
     pk |-> [writer EXCEPT !.message = body],
     msg |-> NoMessage]

\* encrypt, where the ratchet message goes: at the start of the output
\* buffer once the session has received a message, in the message field
\* of the envelope before
Frame(session, writer, body) ==
    IF session.received_message
    THEN MessageBytes(body)
    ELSE [kind |-> "prekey",
          pk |-> [writer EXCEPT !.message = body],
          msg |-> NoMessage]

\* Session::encrypt.  message is the content of the output buffer when the
\* call returns; invoked says whether ratchet.encrypt was called.
encrypt(session, plaintext, random, message_length) ==
    IF OutputBufferTooSmall(session, Len(plaintext), message_length)
    THEN [session |-> [session EXCEPT
                          !.last_error = "OUTPUT_BUFFER_TOO_SMALL"],
          result |-> ERROR_SENTINEL,
          message |-> EmptyBytes,
          invoked |-> FALSE]
    ELSE
    LET message_body_length ==
            ratchet_encrypt_output_length(session.ratchet, Len(plaintext))
        writer ==
            FillWriter(
                session,
                encode_one_time_key_message(
                    PROTOCOL_VERSION, session.bob_one_time_key_id,
                    KEY_LENGTH, KEY_LENGTH, message_body_length))
        r == ratchet_encrypt(
                 session.ratchet, plaintext, random, message_body_length)
        body == IF r.result = ERROR_SENTINEL
                THEN [NoMessage EXCEPT !.present = TRUE,
                                       !.length = message_body_length]
                ELSE r.message
        out == Frame(session, writer, body)
    IN  [session |->
            IF r.result = ERROR_SENTINEL
            THEN PropagateError(session, r.ratchet)
            ELSE [session EXCEPT !.ratchet = r.ratchet],
         result |-> r.result,
         message |-> out,
         invoked |-> TRUE]

\* a variant that hands the ratchet the whole buffer under either type
MessageBody_whole(message_type, message) ==
    {message}

\* the buffer decrypt and decrypt_max_plaintext_length hand to the ratchet:
\* the whole message, or the envelope's message field; the empty set when
\* the envelope has none
MessageBody(message_type, message) ==
    IF message_type = "MESSAGE"
    THEN {message}
    ELSE LET reader == decode_one_time_key_message(message)
         IN  IF ~reader.message.present
             THEN {}
             ELSE {MessageBytes(reader.message)}

\* Session::decrypt_max_plaintext_length
decrypt_max_plaintext_length(session, message_type, message) ==
    LET body == MessageBody(message_type, message)
    IN  IF body = {}
        THEN [session |-> [session EXCEPT !.last_error = "BAD_MESSAGE_FORMAT"],
              result |-> ERROR_SENTINEL,
              invoked |-> FALSE]
        ELSE
        LET r == ratchet_decrypt_max_plaintext_length(
                     session.ratchet, CHOOSE b \in body : TRUE)
        IN  [session |->
                IF r.result = ERROR_SENTINEL
                THEN PropagateError(session, r.ratchet)
                ELSE [session EXCEPT !.ratchet = r.ratchet],
             result |-> r.result,
             invoked |-> TRUE]

\* Session::decrypt
decrypt(session, message_type, message, max_plaintext_length) ==
    LET body == MessageBody(message_type, message)
    IN  IF body = {}
        THEN [session |-> [session EXCEPT !.last_error = "BAD_MESSAGE_FORMAT"],
              result |-> ERROR_SENTINEL,
              plaintext |-> <<>>,
              invoked |-> FALSE]
        ELSE
        LET r == ratchet_decrypt(
                     session.ratchet, CHOOSE b \in body : TRUE,
                     max_plaintext_length)
        IN  [session |->
                IF r.result = ERROR_SENTINEL
                THEN PropagateError(session, r.ratchet)
                ELSE Latch(session, r.ratchet),
             result |-> r.result,
             plaintext |-> r.plaintext,
             invoked |-> TRUE]

\* ------------------------------------------------------------------------
\* Persistence (olm/pickle.hh).  A pickle buffer is a sequence of cells,
\* one per encoded value, each with the number of bytes it takes; a cursor
\* is the number of cells before it.
\* ------------------------------------------------------------------------
RECURSIVE BufferLength(_)
\* the number of bytes of a buffer
BufferLength(buffer) ==
    IF buffer = <<>> THEN 0
    ELSE buffer[1].len + BufferLength(Tail(buffer))

\* pickle_length of a bool, a uint32, a public key
pickle_length_bool == 1

pickle_length_uint32 == 4

pickle_length_key == KEY_LENGTH

\* pickle_length(Ratchet)
pickle_length_ratchet(ratchet) ==
    KEY_LENGTH
    + 4 + Len(ratchet.sender_chain) * (3 * KEY_LENGTH + 4)
    + 4 + Len(ratchet.receiver_chains) * (2 * KEY_LENGTH + 4)
    + 4 + Cardinality(ratchet.skipped_message_keys) * (2 * KEY_LENGTH + 4)

pickle_bool(pos, value) ==
    Append(pos, [len |-> pickle_length_bool,
                 val |-> IF value THEN 1 ELSE 0])

\* the value is a std::uint32_t already
pickle_uint32(pos, value) ==
    Append(pos, [len |-> pickle_length_uint32, val |-> value])

pickle_key(pos, value) ==
    Append(pos, [len |-> pickle_length_key, val |-> value.public_key])

\* the ratchet pickles its keys and chains, not its last_error
pickle_ratchet(pos, ratchet) ==
    Append(pos, [len |-> pickle_length_ratchet(ratchet),
                 val |-> [root_key |-> ratchet.root_key,
                          sender_chain |-> ratchet.sender_chain,
                          receiver_chains |-> ratchet.receiver_chains,
                          skipped_message_keys |->
                              ratchet.skipped_message_keys]])

\* the primitive unpickle: the next cell, or the end of the buffer and no
\* value when the cursor is at the end
unpickle_cell(buffer, pos, end) ==
    IF pos >= end
    THEN [pos |-> end, val |-> {}]
    ELSE [pos |-> pos + 1, val |-> {buffer[pos + 1].val}]

CellValue(cell, default) ==
    IF cell.val = {} THEN default ELSE CHOOSE v \in cell.val : TRUE

\* olm::pickle_length(Session)
pickle_length(value) ==
    pickle_length_bool
    + pickle_length_uint32
    + pickle_length_key
    + pickle_length_key
    + pickle_length_uint32
    + pickle_length_ratchet(value.ratchet)

\* olm::pickle(pos, Session): the buffer with the session appended
pickle(pos, value) ==
    LET p1 == pickle_bool(pos, value.received_message)
        p2 == pickle_uint32(p1, value.alice_identity_key.id)
        p3 == pickle_key(p2, value.alice_identity_key.key)
        p4 == pickle_key(p3, value.alice_base_key)
        p5 == pickle_uint32(p4, value.bob_one_time_key_id)
        p6 == pickle_ratchet(p5, value.ratchet)
    IN  p6

\* a variant that reads the two keys in the other order
unpickle_crossed(buffer, pos, end, value) ==
    LET c1 == unpickle_cell(buffer, pos, end)
        c2 == unpickle_cell(buffer, c1.pos, end)
        c3 == unpickle_cell(buffer, c2.pos, end)
        c4 == unpickle_cell(buffer, c3.pos, end)
        c5 == unpickle_cell(buffer, c4.pos, end)
        c6 == unpickle_cell(buffer, c5.pos, end)
        r == CellValue(c6, [root_key |-> <<>>, sender_chain |-> <<>>,
                            receiver_chains |-> <<>>,
                            skipped_message_keys |-> {}])
    IN  [pos |-> c6.pos,
         value |->
            [value EXCEPT
                !.received_message = (CellValue(c1, 0) # 0),
                !.alice_identity_key.id = CellValue(c2, 0),
                !.alice_base_key.public_key = CellValue(c3, 0),
                !.alice_identity_key.key.public_key = CellValue(c4, 0),
                !.bob_one_time_key_id = CellValue(c5, 0),
                !.ratchet = [root_key |-> r.root_key,
                             sender_chain |-> r.sender_chain,
                             receiver_chains |-> r.receiver_chains,
                             skipped_message_keys |-> r.skipped_message_keys,
                             last_error |-> value.ratchet.last_error]]]

\* olm::unpickle(pos, end, Session): the cursor after the session and the
\* session read into value
unpickle(buffer, pos, end, value) ==
    LET c1 == unpickle_cell(buffer, pos, end)
        c2 == unpickle_cell(buffer, c1.pos, end)
        c3 == unpickle_cell(buffer, c2.pos, end)
        c4 == unpickle_cell(buffer, c3.pos, end)
        c5 == unpickle_cell(buffer, c4.pos, end)
        c6 == unpickle_cell(buffer, c5.pos, end)
        r == CellValue(c6, [root_key |-> <<>>, sender_chain |-> <<>>,
                            receiver_chains |-> <<>>,
                            skipped_message_keys |-> {}])
    IN  [pos |-> c6.pos,
         value |->
            [value EXCEPT
                !.received_message = (CellValue(c1, 0) # 0),
                !.alice_identity_key.id = CellValue(c2, 0),
                !.alice_identity_key.key.public_key = CellValue(c3, 0),
                !.alice_base_key.public_key = CellValue(c4, 0),
                !.bob_one_time_key_id = CellValue(c5, 0),
                !.ratchet = [root_key |-> r.root_key,
                             sender_chain |-> r.sender_chain,
                             receiver_chains |-> r.receiver_chains,
                             skipped_message_keys |-> r.skipped_message_keys,
                             last_error |-> value.ratchet.last_error]]]

\* ------------------------------------------------------------------------
\* The state: two hosts, each with one account and one session object, the
\* messages sent so far and the checkpoint kept.  The const queries
\* (matches_inbound_session, encrypt_message_type, encrypt_message_length,
\* encrypt_random_length) write nothing; they are the operators above,
\* evaluated on the state, and take no step.
\*
\* env fixes what the hosts pass to the session.  "hostile": host "a" is
\* handed every argument, well-formed or not, and host "b" is a correct
\* peer, which passes enough randomness and buffer space and decrypts what
\* was sent to it.  "correct": both hosts are correct, and host "a" also
\* checkpoints and restores its session.  "interop": an initiator and a
\* responder exchange messages, each delivered at most once.
\* ------------------------------------------------------------------------
VARIABLES
    env,        \* the environment of the run
    sess,       \* the session objects
    wire,       \* the messages successful encrypts produced
    store,      \* the latest pickle host "a" took, if any
    hist,       \* per session, what has happened to it (history)
    delivered   \* interoperability runs: the messages already decrypted

vars == <<env, sess, wire, store, hist, delivered>>

Sessions == {"a", "b"}

\* the account of the host that owns a session
Owner(s) == IF s = "a" THEN "alice" ELSE "bob"

Peer(account) == IF account = "alice" THEN "bob" ELSE "alice"

\* whether the host of a session passes ill-formed arguments too
Hostile(s) == s = "a" /\ env = "hostile"

\* the one-time keys of an account as a remote party may hold them: the
\* keys it advertises and, for alice, one (id 2) she has consumed since
RemoteKeys(account) ==
    {[id |-> k.id, key |-> k.key.public_key] :
        k \in AccountOneTimeKeys(account)}
    \cup (IF account = "alice" THEN {[id |-> 2, key |-> Pub(5)]} ELSE {})

\* caller-supplied randomness for new_outbound_session
OutboundRandoms(s) ==
    IF s = "a"
    THEN {[length |-> 64, seeds |-> <<6, 7>>],
          [length |-> 64, seeds |-> <<8, 7>>]}
         \cup (IF Hostile(s) THEN {[length |-> 63, seeds |-> <<6, 7>>]}
               ELSE {})
    ELSE {[length |-> 64, seeds |-> <<10, 11>>]}

\* caller-supplied randomness for encrypt; an interoperability run draws
\* fresh randomness for every message
EncryptRandoms(s) ==
    IF env = "interop"
    THEN {[length |-> 32, seed |-> 20 + Cardinality(wire)]}
    ELSE IF Hostile(s)
    THEN {[length |-> 0, seed |-> 0], [length |-> 32, seed |-> 9]}
    ELSE {[length |-> 32, seed |-> 12]}

\* by how many bytes the buffer handed to encrypt is too short
Shortfalls(s) == IF Hostile(s) THEN {0, 1} ELSE {0}

\* what a host encrypts
Plaintexts(s) ==
    IF env = "interop" THEN {<<1>>, <<2, 3>>}
    ELSE IF s = "a" THEN {<<1>>} ELSE {<<2, 3>>}

\* the plaintexts the claims consider
AllPlaintexts == {<<>>, <<1>>, <<2, 3>>}

MessageTypes == {"PRE_KEY", "MESSAGE"}

\* a ratchet message that carries no ratchet key
KeylessMessage ==
    [present |-> TRUE, version |-> PROTOCOL_VERSION, ratchet_key |-> NoField,
     has_counter |-> TRUE, counter |-> 0,
     ciphertext_length |-> 16, ciphertext |-> NoCipher, length |-> 29]

\* ill-formed buffers a host may be handed: nothing decodable; an envelope
\* of protocol version 2 without a one-time-key id; an envelope without an
\* inner message; an envelope whose inner message has no ratchet key
Malformed ==
    {EmptyBytes,
     [kind |-> "prekey",
      pk |-> [version |-> 2, has_one_time_key_id |-> FALSE,
              one_time_key_id |-> 0,
              base_key |-> [len |-> KEY_LENGTH, val |-> Pub(6)],
              identity_key |-> [len |-> KEY_LENGTH, val |-> Pub(1)],
              message |-> KeylessMessage],
      msg |-> NoMessage],
     [kind |-> "prekey",
      pk |-> [version |-> PROTOCOL_VERSION, has_one_time_key_id |-> TRUE,
              one_time_key_id |-> 1,
              base_key |-> [len |-> KEY_LENGTH, val |-> Pub(6)],
              identity_key |-> [len |-> KEY_LENGTH, val |-> Pub(1)],
              message |-> NoMessage],
      msg |-> NoMessage],
     [kind |-> "prekey",
      pk |-> [version |-> PROTOCOL_VERSION, has_one_time_key_id |-> TRUE,
              one_time_key_id |-> 1,
              base_key |-> [len |-> KEY_LENGTH, val |-> Pub(6)],
              identity_key |-> [len |-> KEY_LENGTH, val |-> Pub(1)],
              message |-> KeylessMessage],
      msg |-> NoMessage]}

\* every buffer there is, under either message type
AllInputs == MessageTypes \X ({m.bytes : m \in wire} \cup Malformed)

\* the buffers a host can be handed, each with the message type the
\* transport states for it
Inputs(s) ==
    IF Hostile(s)
    THEN AllInputs
    ELSE {<<m.type, m.bytes>> : m \in {w \in wire : w.from # s}}

\* the prekey messages a host can be handed
PreKeyInputs(s) == {i[2] : i \in {j \in Inputs(s) : j[1] = "PRE_KEY"}}

\* the three handshake identifiers of a session
Identifiers(session) ==
    <<session.alice_identity_key.key.public_key,
      session.alice_base_key.public_key,
      session.bob_one_time_key_id>>

\* the three handshake identifiers an envelope carries
EnvelopeIdentifiers(bytes) ==
    LET reader == decode_one_time_key_message(bytes)
    IN  <<reader.identity_key.val, reader.base_key.val,
          reader.one_time_key_id>>

\* History of a session.  origin: how it was last initiated; ids: the
\* identifiers handed to that initiation; undisturbed: neither
\* new_inbound_session nor unpickle was called since; ever: a decrypt has
\* succeeded; since: a decrypt has succeeded since the last successful
\* new_outbound_session.  unpickle loads the history of the pickled
\* session.
NoHistory ==
    [origin |-> "none", ids |-> <<0, 0, 0>>, undisturbed |-> FALSE,
     ever |-> FALSE, since |-> FALSE]

InitIn(e) ==
    /\ env = e
    /\ sess = [s \in Sessions |-> NewSession]
    /\ wire = {}
    /\ store = {}
    /\ hist = [s \in Sessions |-> NoHistory]
    /\ delivered = {}

Init == InitIn("hostile")

DoNewOutboundSession(s) ==
    \E one_time_key \in RemoteKeys(Peer(Owner(s))),
       random \in OutboundRandoms(s) :
        LET identity_key == AccountIdentityKey(Peer(Owner(s))).key.public_key
            r == new_outbound_session(
                     sess[s], Owner(s), identity_key, one_time_key, random)
        IN  /\ sess' = [sess EXCEPT ![s] = r.session]
            /\ hist' =
                IF r.result = ERROR_SENTINEL THEN hist
                ELSE [hist EXCEPT ![s] =
                        [@ EXCEPT
                            !.origin = "outbound",
                            !.ids = <<AccountIdentityKey(Owner(s))
                                          .key.public_key,
                                      Pub(random.seeds[1]),
                                      one_time_key.id>>,
                            !.undisturbed = TRUE,
                            !.since = FALSE]]
            /\ UNCHANGED <<env, wire, store, delivered>>

DoNewInboundSession(s) ==
    \E bytes \in PreKeyInputs(s) :
        LET r == new_inbound_session(sess[s], Owner(s), bytes)
        IN  /\ sess' = [sess EXCEPT ![s] = r.session]
            /\ hist' =
                IF r.result = ERROR_SENTINEL
                THEN [hist EXCEPT ![s].undisturbed = FALSE]
                ELSE [hist EXCEPT ![s] =
                        [@ EXCEPT
                            !.origin = "inbound",
                            !.ids = EnvelopeIdentifiers(bytes),
                            !.undisturbed = FALSE]]
            /\ UNCHANGED <<env, wire, store, delivered>>

\* how many messages the run may put on the wire
WireBound == IF env = "interop" THEN MaxInterop ELSE MaxWire

\* what goes on the wire with a message: who sent it, under which type,
\* what encrypt returned, the sender's identifiers then, how the sender
\* had been initiated and with which identifiers, and whether it was
\* undisturbed since
WireMessage(s, plaintext, r) ==
    [from |-> s,
     type |-> encrypt_message_type(sess[s]),
     bytes |-> r.message,
     plain |-> plaintext,
     result |-> r.result,
     ids |-> Identifiers(sess[s]),
     origin |-> hist[s].origin,
     initial |-> hist[s].ids,
     undisturbed |-> hist[s].undisturbed]

\* encrypt is called on initiated sessions only: a freshly constructed
\* session is unusable.  The caller offers a buffer of the length
\* encrypt_message_length asks for, or one byte less.
DoEncrypt(s) ==
    /\ RatchetInitialised(sess[s].ratchet)
    /\ \E plaintext \in Plaintexts(s), random \in EncryptRandoms(s),
          short \in Shortfalls(s) :
        LET message_length ==
                encrypt_message_length(sess[s], Len(plaintext)) - short
            r == encrypt(sess[s], plaintext, random, message_length)
        IN  /\ r.result # ERROR_SENTINEL => Cardinality(wire) < WireBound
            /\ sess' = [sess EXCEPT ![s] = r.session]
            /\ wire' =
                IF r.result = ERROR_SENTINEL THEN wire
                ELSE wire \cup {WireMessage(s, plaintext, r)}
            /\ UNCHANGED <<env, store, hist, delivered>>

DoDecryptMaxPlaintextLength(s) ==
    /\ RatchetInitialised(sess[s].ratchet)
    /\ \E i \in Inputs(s) :
        LET r == decrypt_max_plaintext_length(sess[s], i[1], i[2])
        IN  /\ sess' = [sess EXCEPT ![s] = r.session]
            /\ UNCHANGED <<env, wire, store, hist, delivered>>

\* the caller hands decrypt a plaintext buffer of the length
\* decrypt_max_plaintext_length gives for a padded block
DoDecrypt(s) ==
    /\ RatchetInitialised(sess[s].ratchet)
    /\ \E i \in Inputs(s) :
        LET r == decrypt(sess[s], i[1], i[2], 16)
        IN  /\ sess' = [sess EXCEPT ![s] = r.session]
            /\ hist' =
                IF r.result = ERROR_SENTINEL THEN hist
                ELSE [hist EXCEPT ![s].ever = TRUE, ![s].since = TRUE]
            /\ UNCHANGED <<env, wire, store, delivered>>

Next ==
    \E s \in Sessions :
        \/ DoNewOutboundSession(s)
        \/ DoNewInboundSession(s)
        \/ DoEncrypt(s)
        \/ DoDecryptMaxPlaintextLength(s)
        \/ DoDecrypt(s)

Spec == Init /\ [][Next]_vars

\* ------------------------------------------------------------------------
\* Persistence runs: correct hosts; host "a" checkpoints its session,
\* replacing the checkpoint it had, and restores it
\* ------------------------------------------------------------------------
DoPickle(s) ==
    /\ s = "a"
    /\ store' = {[bytes |-> pickle(<<>>, sess[s]), hist |-> hist[s]]}
    /\ UNCHANGED <<env, sess, wire, hist, delivered>>

DoUnpickle(s) ==
    /\ s = "a"
    /\ \E p \in store :
        LET r == unpickle(p.bytes, 0, Len(p.bytes), sess[s])
        IN  /\ sess' = [sess EXCEPT ![s] = r.value]
            /\ hist' = [hist EXCEPT ![s] =
                            [p.hist EXCEPT !.undisturbed = FALSE]]
            /\ UNCHANGED <<env, wire, store, delivered>>

InitPersist == InitIn("correct")

NextPersist ==
    \E s \in Sessions :
        \/ DoNewOutboundSession(s)
        \/ DoNewInboundSession(s)
        \/ DoEncrypt(s)
        \/ DoDecryptMaxPlaintextLength(s)
        \/ DoDecrypt(s)
        \/ DoPickle(s)
        \/ DoUnpickle(s)

SpecPersist == InitPersist /\ [][NextPersist]_vars

\* ------------------------------------------------------------------------
\* Interoperability runs: "a" initiates towards bob's one-time key, "b" is
\* initiated by the first prekey message "a" produced, and from then on
\* both encrypt at will and decrypt the other's messages, in any order,
\* each message once.  delivered keeps what each decrypt returned.
\* ------------------------------------------------------------------------
\* the first message an initiator produced: counter 0 of its first chain
FirstPreKeyMessages ==
    {m \in wire : /\ m.from = "a"
                  /\ m.type = "PRE_KEY"
                  /\ decode_one_time_key_message(m.bytes).message.counter = 0}

InteropOutbound ==
    /\ hist["a"].origin = "none"
    /\ DoNewOutboundSession("a")

InteropInbound ==
    /\ hist["b"].origin = "none"
    /\ \E m \in FirstPreKeyMessages :
        LET r == new_inbound_session(sess["b"], Owner("b"), m.bytes)
        IN  /\ sess' = [sess EXCEPT !["b"] = r.session]
            /\ hist' = [hist EXCEPT !["b"] =
                           [@ EXCEPT !.origin =
                               IF r.result = ERROR_SENTINEL THEN "none"
                               ELSE "inbound",
                            !.ids = EnvelopeIdentifiers(m.bytes)]]
            /\ UNCHANGED <<env, wire, store, delivered>>

InteropEncrypt(s) ==
    /\ hist[s].origin # "none"
    /\ DoEncrypt(s)

InteropDecrypt(s) ==
    /\ hist[s].origin # "none"
    /\ \E m \in wire :
        /\ m.from # s
        /\ \A d \in delivered : d.msg # m
        /\ LET r == decrypt(sess[s], m.type, m.bytes, 16)
           IN  /\ sess' = [sess EXCEPT ![s] = r.session]
               /\ delivered' = delivered \cup
                      {[msg |-> m, result |-> r.result,
                        plaintext |-> r.plaintext]}
               /\ hist' =
                   IF r.result = ERROR_SENTINEL THEN hist
                   ELSE [hist EXCEPT ![s].ever = TRUE, ![s].since = TRUE]
    /\ UNCHANGED <<env, wire, store>>

InitInterop == InitIn("interop")

NextInterop ==
    \/ InteropOutbound
    \/ InteropInbound
    \/ \E s \in Sessions :
        \/ InteropEncrypt(s)
        \/ InteropDecrypt(s)

SpecInterop == InitInterop /\ [][NextInterop]_vars

\* ------------------------------------------------------------------------
\* Properties
\* ------------------------------------------------------------------------
\* the fields of a session that pickle writes
PickledFields(session) ==
    <<session.received_message,
      session.alice_identity_key.id,
      session.alice_identity_key.key.public_key,
      session.alice_base_key.public_key,
      session.bob_one_time_key_id,
      session.ratchet.root_key,
      session.ratchet.sender_chain,
      session.ratchet.receiver_chains,
      session.ratchet.skipped_message_keys>>

\* C1, as stated: encrypt_message_type is PRE_KEY in every state before
\* the session's first successful decrypt and MESSAGE in every state
\* after it.
C1_LatchedForever ==
    \A s \in Sessions :
        encrypt_message_type(sess[s])
            = IF hist[s].ever THEN "MESSAGE" ELSE "PRE_KEY"

\* C1, amended: encrypt_message_type is MESSAGE exactly when a decrypt has
\* succeeded since the last successful new_outbound_session, which sets
\* received_message back to false; unpickle restores the flag of the
\* pickled session, and no other operation changes it.
C1_LatchedSinceInitiation ==
    \A s \in Sessions :
        /\ encrypt_message_type(sess[s])
            = IF hist[s].since THEN "MESSAGE" ELSE "PRE_KEY"
        /\ sess[s].received_message = hist[s].since

\* a session that had latched and was initiated again reports PRE_KEY
C1_Witness ==
    /\ hist["a"].ever
    /\ ~hist["a"].since
    /\ hist["a"].origin = "outbound"
    /\ encrypt_message_type(sess["a"]) = "PRE_KEY"

\* C2: after the initiator's new_outbound_session and the responder's
\* new_inbound_session on the initiator's first prekey message, every
\* decrypt of a message of the other side, under the type its sender
\* reported, in any order, returns the length of the plaintext that was
\* encrypted and yields that plaintext: for the messages already
\* decrypted and for every message still to be decrypted.
C2_RoundTrip ==
    /\ \A d \in delivered :
        /\ d.result = Len(d.msg.plain)
        /\ d.plaintext = d.msg.plain
    /\ \A s \in Sessions, m \in wire :
        (/\ m.from # s
         /\ hist[s].origin # "none"
         /\ \A d \in delivered : d.msg # m)
        => LET r == decrypt(sess[s], m.type, m.bytes, 16)
           IN  /\ r.result = Len(m.plain)
               /\ r.plaintext = m.plain

\* messages went both ways, under both types, one of them out of order
C2_Witness ==
    /\ \E d \in delivered : d.msg.from = "a" /\ d.msg.type = "PRE_KEY"
    /\ \E d \in delivered : d.msg.from = "b" /\ d.msg.type = "MESSAGE"
    /\ \E d \in delivered, m \in wire :
        /\ m.from = d.msg.from
        /\ m.type = "PRE_KEY" /\ d.msg.type = "PRE_KEY"
        /\ decode_one_time_key_message(m.bytes).message.counter
            < decode_one_time_key_message(d.msg.bytes).message.counter
        /\ \A e \in delivered : e.msg # m

C4_ForeignNeverMatches ==
    \A s \in Sessions, m \in wire :
        (m.type = "PRE_KEY" /\ m.from # s)
        => ~matches_inbound_session(sess[s], m.bytes)

\* C4, amended: for a prekey message that a different session emitted,
\* matches_inbound_session returns false if and only if the emitter's
\* identity key, base key or one-time-key id differed from the session's
\* own; it returns true for the messages of the peer session of the same
\* handshake, which carry the same three identifiers.
C4_ForeignMatchesIffSameIdentifiers ==
    \A s \in Sessions, m \in wire :
        (m.type = "PRE_KEY" /\ m.from # s)
        => (matches_inbound_session(sess[s], m.bytes)
                <=> m.ids = Identifiers(sess[s]))

\* an initiated session is handed the prekey message of a session of
\* another handshake, which agrees with it in the one-time-key id only
C4_Witness ==
    \E m \in wire :
        /\ m.type = "PRE_KEY"
        /\ m.from = "b"
        /\ hist["a"].origin = "outbound"
        /\ m.ids # Identifiers(sess["a"])
        /\ m.ids[3] = sess["a"].bob_one_time_key_id
        /\ ~matches_inbound_session(sess["a"], m.bytes)

C6_FailedInboundLeavesState ==
    \A s \in Sessions : \A bytes \in PreKeyInputs(s) :
        LET r == new_inbound_session(sess[s], Owner(s), bytes)
        IN  r.result = ERROR_SENTINEL
            => /\ Identifiers(r.session) = Identifiers(sess[s])
               /\ r.session.alice_identity_key = sess[s].alice_identity_key
               /\ r.session.received_message = sess[s].received_message
               /\ r.session.ratchet = sess[s].ratchet

\* C7, as stated, a lifetime running from one successful initiation or
\* unpickle to the next: the three identifiers of an initiated session are
\* those of its initiation.
C7_IdentifiersImmutable ==
    \A s \in Sessions :
        hist[s].origin # "none" => Identifiers(sess[s]) = hist[s].ids

\* C8: pickle writes pickle_length(S) bytes after any prefix, and unpickle
\* of what it wrote reads exactly those bytes and restores every field
\* pickle wrote, whatever the session it reads into held.
C8_PickleRoundTrip ==
    \A s \in Sessions, t \in Sessions :
        LET before == pickle(<<>>, sess[t])
            buffer == pickle(before, sess[s])
            r == unpickle(buffer, Len(before), Len(buffer), sess[t])
        IN  /\ BufferLength(buffer) - BufferLength(before)
                = pickle_length(sess[s])
            /\ r.pos = Len(buffer)
            /\ PickledFields(r.value) = PickledFields(sess[s])
            /\ r.value.last_error = sess[t].last_error

\* a checkpoint taken after the session had encrypted was restored: the
\* session equals its checkpoint although it has been disturbed since
C8_Witness ==
    \E p \in store :
        /\ p.hist.undisturbed
        /\ ~hist["a"].undisturbed
        /\ p.bytes = pickle(<<>>, sess["a"])
        /\ Len(sess["a"].ratchet.sender_chain) > 0
        /\ sess["a"].ratchet.sender_chain[1].chain_key.index > 0
        /\ PickledFields(sess["a"]) # PickledFields(sess["b"])

\* randomness shorter than new_outbound_session_random_length
ShortRandoms ==
    {[length |-> n, seeds |-> <<6, 7>>] : n \in {0, KEY_LENGTH, 63}}

\* C9: new_outbound_session with fewer than 64 bytes of randomness returns
\* the error sentinel, sets last_error to NOT_ENOUGH_RANDOM and changes
\* nothing else of the session.
C9_NotEnoughRandom ==
    \A s \in Sessions, random \in ShortRandoms :
      \A one_time_key \in RemoteKeys(Peer(Owner(s))) :
        LET r == new_outbound_session(
                     sess[s], Owner(s),
                     AccountIdentityKey(Peer(Owner(s))).key.public_key,
                     one_time_key, random)
        IN  /\ r.result = ERROR_SENTINEL
            /\ r.session
                = [sess[s] EXCEPT !.last_error = "NOT_ENOUGH_RANDOM"]

\* an initiated session that no message was ever produced for was refused
\* a second initiation: only new_outbound_session raises this error then
C9_Witness ==
    /\ wire = {}
    /\ RatchetInitialised(sess["a"].ratchet)
    /\ hist["a"].origin = "outbound"
    /\ sess["a"].last_error = "NOT_ENOUGH_RANDOM"

\* the randomness the claims hand to encrypt
AllEncryptRandoms ==
    {[length |-> 0, seed |-> 0], [length |-> 32, seed |-> 9]}

\* C10: encrypt with an output buffer shorter than encrypt_message_length
\* returns the error sentinel, sets last_error to OUTPUT_BUFFER_TOO_SMALL,
\* does not call ratchet.encrypt and changes nothing else of the session,
\* whether the session is in prekey or in bare mode.
C10_OutputBufferTooSmall ==
    \A s \in Sessions, plaintext \in AllPlaintexts,
       random \in AllEncryptRandoms :
        LET needed == encrypt_message_length(sess[s], Len(plaintext))
        IN  \A message_length \in {0, needed - 3, needed - 1} :
                LET r == encrypt(sess[s], plaintext, random, message_length)
                IN  /\ r.result = ERROR_SENTINEL
                    /\ ~r.invoked
                    /\ r.session
                        = [sess[s] EXCEPT
                              !.last_error = "OUTPUT_BUFFER_TOO_SMALL"]

\* both modes: one session refused a short buffer in bare mode while the
\* other is in prekey mode
C10_Witness ==
    /\ sess["a"].received_message
    /\ sess["a"].last_error = "OUTPUT_BUFFER_TOO_SMALL"
    /\ RatchetInitialised(sess["b"].ratchet)
    /\ ~sess["b"].received_message

\* Every call of a state-changing operation that can be made on session s
\* in the current state, with what it returned and the session after it.
\* encrypt and the decrypt operations are called on initiated sessions
\* only.
Outcomes(s) ==
    LET outbound ==
            {new_outbound_session(
                 sess[s], Owner(s),
                 AccountIdentityKey(Peer(Owner(s))).key.public_key,
                 one_time_key, random) :
                 one_time_key \in RemoteKeys(Peer(Owner(s))),
                 random \in OutboundRandoms(s) \cup ShortRandoms}
        inbound ==
            {new_inbound_session(sess[s], Owner(s), i[2]) : i \in AllInputs}
        lengths(plaintext) ==
            {encrypt_message_length(sess[s], Len(plaintext)) - short :
                 short \in {0, 1}}
        encrypts ==
            UNION {{encrypt(sess[s], plaintext, random, message_length) :
                        message_length \in lengths(plaintext)} :
                   plaintext \in AllPlaintexts, random \in AllEncryptRandoms}
        lengthqueries ==
            {decrypt_max_plaintext_length(sess[s], i[1], i[2]) :
                 i \in AllInputs}
        decrypts ==
            {decrypt(sess[s], i[1], i[2], 16) : i \in AllInputs}
        outcome(op, r) ==
            [op |-> op, result |-> r.result, session |-> r.session]
    IN  {outcome("new_outbound_session", r) : r \in outbound}
        \cup {outcome("new_inbound_session", r) : r \in inbound}
        \cup (IF RatchetInitialised(sess[s].ratchet)
              THEN {outcome("encrypt", r) : r \in encrypts}
                   \cup {outcome("decrypt_max_plaintext_length", r) :
                             r \in lengthqueries}
                   \cup {outcome("decrypt", r) : r \in decrypts}
              ELSE {})

\* C11, as stated: after a failure has set last_error, the next successful
\* call on the session resets it to SUCCESS.
C11_SuccessClearsError ==
    \A s \in Sessions :
        sess[s].last_error # "SUCCESS"
        => \A o \in Outcomes(s) :
               o.result # ERROR_SENTINEL
               => o.session.last_error = "SUCCESS"

\* C11, amended: after a failure has set last_error, a successful call
\* does not reset it: the session still shows the code of the failure,
\* until a later failing call overwrites it.
C11_ErrorSurvivesSuccess ==
    \A s \in Sessions :
        sess[s].last_error # "SUCCESS"
        => \A o \in Outcomes(s) :
               o.result # ERROR_SENTINEL
               => /\ o.session.last_error # "SUCCESS"
                  /\ o.session.last_error = sess[s].last_error

\* a latched session shows the code of a failed call and can encrypt
\* successfully
C11_Witness ==
    /\ sess["a"].last_error = "BAD_MESSAGE_FORMAT"
    /\ sess["a"].received_message
    /\ hist["a"].since
    /\ \E o \in Outcomes("a") :
        o.op = "encrypt" /\ o.result # ERROR_SENTINEL

\* C12: every successful new_outbound_session, new_inbound_session,
\* encrypt, decrypt and decrypt_max_plaintext_length returns with
\* last_error as it was before the call, whatever it was; the queries
\* assign no field at all.
C12_SuccessLeavesError ==
    \A s \in Sessions : \A o \in Outcomes(s) :
        o.result # ERROR_SENTINEL
        => o.session.last_error = sess[s].last_error

\* a session that shows an error can be initiated anew, and one that shows
\* none can encrypt
C12_Witness ==
    /\ sess["a"].last_error = "NOT_ENOUGH_RANDOM"
    /\ \E o \in Outcomes("a") :
        o.op = "new_outbound_session" /\ o.result # ERROR_SENTINEL
    /\ sess["b"].last_error = "SUCCESS"
    /\ \E o \in Outcomes("b") :
        o.op = "encrypt" /\ o.result # ERROR_SENTINEL

\* C13: when ratchet.encrypt, ratchet.decrypt or
\* ratchet.decrypt_max_plaintext_length fails inside a session operation,
\* the operation returns the error sentinel, the session's last_error is
\* the code the ratchet raised and the ratchet's last_error is SUCCESS;
\* and the ratchet's last_error is SUCCESS in every state and after every
\* call that can be made.
C13_RatchetErrorsPropagate ==
    \A s \in Sessions :
        /\ sess[s].ratchet.last_error = "SUCCESS"
        /\ \A o \in Outcomes(s) : o.session.ratchet.last_error = "SUCCESS"
        /\ RatchetInitialised(sess[s].ratchet)
           => /\ \A plaintext \in AllPlaintexts, random \in AllEncryptRandoms :
                   LET body_length == ratchet_encrypt_output_length(
                                          sess[s].ratchet, Len(plaintext))
                       rr == ratchet_encrypt(
                                 sess[s].ratchet, plaintext, random,
                                 body_length)
                       r == encrypt(
                                sess[s], plaintext, random,
                                encrypt_message_length(
                                    sess[s], Len(plaintext)))
                   IN  rr.result = ERROR_SENTINEL
                       => /\ r.result = ERROR_SENTINEL
                          /\ r.session.last_error = rr.ratchet.last_error
                          /\ r.session.last_error # "SUCCESS"
                          /\ r.session.ratchet.last_error = "SUCCESS"
              /\ \A i \in AllInputs : \A body \in MessageBody(i[1], i[2]) :
                   LET rd == ratchet_decrypt(sess[s].ratchet, body, 16)
                       d == decrypt(sess[s], i[1], i[2], 16)
                       rl == ratchet_decrypt_max_plaintext_length(
                                 sess[s].ratchet, body)
                       l == decrypt_max_plaintext_length(sess[s], i[1], i[2])
                   IN  /\ rd.result = ERROR_SENTINEL
                          => /\ d.result = ERROR_SENTINEL
                             /\ d.session.last_error = rd.ratchet.last_error
                             /\ d.session.last_error # "SUCCESS"
                             /\ d.session.ratchet.last_error = "SUCCESS"
                       /\ rl.result = ERROR_SENTINEL
                          => /\ l.result = ERROR_SENTINEL
                             /\ l.session.last_error = rl.ratchet.last_error
                             /\ l.session.last_error # "SUCCESS"
                             /\ l.session.ratchet.last_error = "SUCCESS"

\* a session shows an error only the ratchet raises, and the ratchet none;
\* its ratchet would refuse an encrypt too
C13_Witness ==
    /\ sess["a"].last_error = "BAD_MESSAGE_MAC"
    /\ sess["a"].ratchet.last_error = "SUCCESS"
    /\ RatchetInitialised(sess["a"].ratchet)
    /\ ratchet_encrypt_random_length(sess["a"].ratchet) > 0

\* scenario S1 has run: the responder has decrypted a message of the
\* initiator, and the initiator has decrypted nothing
AfterS1 ==
    /\ hist["a"].origin = "outbound"
    /\ hist["b"].origin = "inbound"
    /\ \E d \in delivered : d.msg.from = "a" /\ d.result # ERROR_SENTINEL
    /\ \A d \in delivered : d.msg.from # "b"

\* C14, as stated: after S1 the initiator reports PRE_KEY and so does the
\* responder, whose next message is PRE_KEY-typed.
C14_ResponderStillPreKey ==
    AfterS1
    => /\ encrypt_message_type(sess["a"]) = "PRE_KEY"
       /\ encrypt_message_type(sess["b"]) = "PRE_KEY"

\* C14, amended: after S1 the initiator still reports PRE_KEY, and the
\* responder, whose decrypt has latched it, reports MESSAGE: every message
\* it encrypts from then on is a bare ratchet message.  The responder
\* reports PRE_KEY only between new_inbound_session, which decrypts
\* nothing, and its first successful decrypt.
C14_ResponderLatchedByDecrypt ==
    /\ AfterS1
       => /\ encrypt_message_type(sess["a"]) = "PRE_KEY"
          /\ encrypt_message_type(sess["b"]) = "MESSAGE"
          /\ \A plaintext \in AllPlaintexts, random \in EncryptRandoms("b") :
                LET r == encrypt(
                             sess["b"], plaintext, random,
                             encrypt_message_length(
                                 sess["b"], Len(plaintext)))
                IN  /\ r.result # ERROR_SENTINEL
                    /\ r.message.kind = "message"
    /\ (/\ hist["b"].origin = "inbound"
        /\ \A d \in delivered : d.msg.from # "a")
       => encrypt_message_type(sess["b"]) = "PRE_KEY"

\* S1 has run and the responder has sent its first message since
C14_Witness ==
    /\ AfterS1
    /\ Cardinality(delivered) = 1
    /\ \E m \in wire : m.from = "b" /\ m.type = "MESSAGE"
    /\ \A m \in wire : m.from = "b" => m.type = "MESSAGE"

\* the envelopes on the wire and, of each, the envelopes that differ from
\* it in one field: an id (7) no account holds, no id at all, a null base
\* key, a short identity key, no inner message; and the ill-formed buffers
EnvelopeInputs ==
    LET envelopes == {m.bytes : m \in {w \in wire : w.type = "PRE_KEY"}}
    IN  envelopes
        \cup {[e EXCEPT !.pk.one_time_key_id = 7] : e \in envelopes}
        \cup {[e EXCEPT !.pk.has_one_time_key_id = FALSE] : e \in envelopes}
        \cup {[e EXCEPT !.pk.base_key = NoField] : e \in envelopes}
        \cup {[e EXCEPT !.pk.identity_key.len = 31] : e \in envelopes}
        \cup {[e EXCEPT !.pk.message = NoMessage] : e \in envelopes}
        \cup {[e EXCEPT !.pk.message.ratchet_key = NoField] : e \in envelopes}
        \cup Malformed

\* C15: new_inbound_session reports an envelope with a missing or
\* wrong-sized identity key, base key, one-time-key id, inner message or
\* inner ratchet key as BAD_MESSAGE_FORMAT, whether or not the account
\* holds the key, and changes nothing else; it reports a well-formed
\* envelope whose one-time-key id the account does not hold as
\* BAD_MESSAGE_KEY_ID and leaves the ratchet as it was.
C15_InboundErrors ==
    \A s \in Sessions, bytes \in EnvelopeInputs :
        LET reader == decode_one_time_key_message(bytes)
            inner == decode_message(MessageBytes(reader.message))
            illformed ==
                \/ reader.identity_key.len # KEY_LENGTH
                \/ ~reader.message.present
                \/ reader.base_key.len # KEY_LENGTH
                \/ ~reader.has_one_time_key_id
                \/ inner.ratchet_key.len # KEY_LENGTH
            held == \E k \in AccountOneTimeKeys(Owner(s)) :
                        k.id = reader.one_time_key_id
            r == new_inbound_session(sess[s], Owner(s), bytes)
        IN  /\ illformed
               => /\ r.result = ERROR_SENTINEL
                  /\ r.session
                      = [sess[s] EXCEPT !.last_error = "BAD_MESSAGE_FORMAT"]
            /\ (~illformed /\ ~held)
               => /\ r.result = ERROR_SENTINEL
                  /\ r.session.last_error = "BAD_MESSAGE_KEY_ID"
                  /\ r.session.ratchet = sess[s].ratchet
                  /\ r.session.received_message = sess[s].received_message

\* an initiated session was handed a well-formed envelope for a key its
\* account does not hold: it keeps the ratchet of its initiation
C15_Witness ==
    /\ sess["a"].last_error = "BAD_MESSAGE_KEY_ID"
    /\ hist["a"].origin = "outbound"
    /\ Len(sess["a"].ratchet.sender_chain) = 1
    /\ \E m \in wire :
        /\ m.type = "PRE_KEY"
        /\ lookup_key("alice", EnvelopeIdentifiers(m.bytes)[3]) = {}

\* C16, as stated: when new_outbound_session or new_inbound_session
\* returns, on success or with an error, every secret it derived into its
\* local variables (the base and ratchet key pairs, the 96-byte shared
\* secret) has been zeroised.
C16_SecretsZeroised ==
    \A s \in Sessions :
        /\ \A random \in OutboundRandoms(s) \cup ShortRandoms :
             \A one_time_key \in RemoteKeys(Peer(Owner(s))) :
                LET r == new_outbound_session(
                             sess[s], Owner(s),
                             AccountIdentityKey(Peer(Owner(s)))
                                 .key.public_key,
                             one_time_key, random)
                IN  IF r.result = ERROR_SENTINEL
                    THEN r.locals = <<>>
                    ELSE r.locals
                            = <<UnsetKeyPair, UnsetKeyPair, UnsetSecret>>
        /\ \A bytes \in EnvelopeInputs :
                LET r == new_inbound_session(sess[s], Owner(s), bytes)
                IN  \A i \in 1..Len(r.locals) : r.locals[i] = UnsetSecret

\* the three 32-byte segments of a 96-byte secret: one DH output each
Segments(secret) ==
    <<SubSeq(secret, 1, 2), SubSeq(secret, 3, 4), SubSeq(secret, 5, 6)>>

\* C17: whatever the two sessions hold, when one is initiated by
\* new_outbound_session towards a one-time key the peer account holds and
\* the other by new_inbound_session on a prekey message the first then
\* emits, both operations succeed and the secret handed to
\* initialise_as_bob equals the one handed to initialise_as_alice, in each
\* of its three segments.
C17_SecretsAgree ==
    \A s \in Sessions, t \in Sessions, plaintext \in AllPlaintexts :
      \A random \in OutboundRandoms(s) \cup OutboundRandoms(t) :
        \A one_time_key \in RemoteKeys(Peer(Owner(s))) :
            LET o == new_outbound_session(
                         sess[s], Owner(s),
                         AccountIdentityKey(Peer(Owner(s))).key.public_key,
                         one_time_key, random)
                e == encrypt(
                         o.session, plaintext, [length |-> 0, seed |-> 0],
                         encrypt_message_length(o.session, Len(plaintext)))
                i == new_inbound_session(
                         sess[t], Peer(Owner(s)), e.message)
            IN  (/\ random.length >= new_outbound_session_random_length
                 /\ \E k \in AccountOneTimeKeys(Peer(Owner(s))) :
                        k.id = one_time_key.id)
                => /\ o.result # ERROR_SENTINEL
                   /\ e.result # ERROR_SENTINEL
                   /\ i.result # ERROR_SENTINEL
                   /\ Len(o.secret) = 6
                   /\ i.secret = o.secret
                   /\ \A n \in 1..3 :
                        Segments(i.secret)[n] = Segments(o.secret)[n]

\* the two ends of one handshake: the responder was initiated by a message
\* of the initiator, and their root keys, derived from the secrets, agree
C17_Witness ==
    /\ hist["a"].origin = "outbound"
    /\ hist["a"].undisturbed
    /\ hist["b"].origin = "inbound"
    /\ hist["b"].ids = Identifiers(sess["a"])
    /\ sess["b"].ratchet.root_key = sess["a"].ratchet.root_key
    /\ sess["a"].ratchet.root_key = kdf_root(
           OutboundSharedSecret(
               AccountIdentityKey("alice"),
               [public_key |-> sess["a"].alice_base_key.public_key,
                private_key |-> sess["a"].alice_base_key.public_key - 100],
               AccountIdentityKey("bob").key.public_key,
               CHOOSE k \in RemoteKeys("bob") :
                   k.id = sess["a"].bob_one_time_key_id)).root_key

\* C18: every successful encrypt frames its output by received_message as
\* it is when the call is made.  If it is true, the output is the ratchet
\* message itself, encrypt_message_type reports MESSAGE and
\* encrypt_message_length the length of that message.  If it is false, the
\* output is an envelope of version 3 that carries the session's identity
\* key, base key and one-time-key id in 32-byte fields and the ratchet
\* message in its message field, encrypt_message_type reports PRE_KEY and
\* encrypt_message_length the encoded length of that envelope.
C18_Framing ==
    \A s \in Sessions :
        RatchetInitialised(sess[s].ratchet)
        => \A plaintext \in AllPlaintexts, random \in AllEncryptRandoms :
            LET needed == encrypt_message_length(sess[s], Len(plaintext))
                rr == ratchet_encrypt(
                          sess[s].ratchet, plaintext, random,
                          ratchet_encrypt_output_length(
                              sess[s].ratchet, Len(plaintext)))
                r == encrypt(sess[s], plaintext, random, needed)
                reader == r.message.pk
            IN  r.result # ERROR_SENTINEL
                => IF sess[s].received_message
                   THEN /\ encrypt_message_type(sess[s]) = "MESSAGE"
                        /\ r.message.kind = "message"
                        /\ r.message.msg = rr.message
                        /\ r.message.msg.length = needed
                   ELSE /\ encrypt_message_type(sess[s]) = "PRE_KEY"
                        /\ r.message.kind = "prekey"
                        /\ reader.version = 3
                        /\ reader.identity_key
                            = [len |-> 32,
                               val |-> sess[s].alice_identity_key
                                           .key.public_key]
                        /\ reader.base_key
                            = [len |-> 32,
                               val |-> sess[s].alice_base_key.public_key]
                        /\ reader.has_one_time_key_id
                        /\ reader.one_time_key_id
                            = sess[s].bob_one_time_key_id
                        /\ reader.message = rr.message
                        /\ encode_one_time_key_message_length(
                               reader.one_time_key_id,
                               reader.identity_key.len,
                               reader.base_key.len,
                               reader.message.length) = needed

\* both framings at once: a latched session that can encrypt, and the
\* session whose prekey message latched it, still in prekey mode
C18_Witness ==
    /\ sess["a"].received_message
    /\ \E o \in Outcomes("a") :
        o.op = "encrypt" /\ o.result # ERROR_SENTINEL
    /\ ~sess["b"].received_message
    /\ \E m \in wire : m.from = "b" /\ m.type = "PRE_KEY"

\* C19: on an initiated session, decrypt of an envelope under PRE_KEY does
\* what decrypt of the envelope's inner message under MESSAGE does: the
\* same result and plaintext and the same session afterwards, whatever
\* identity key, base key and one-time-key id the envelope carries.  Only
\* an envelope without an inner message is refused with
\* BAD_MESSAGE_FORMAT, the ratchet not called and nothing else changed.
C19_PreKeyDecryptIgnoresIdentifiers ==
    \A s \in Sessions :
        RatchetInitialised(sess[s].ratchet)
        => \A e \in EnvelopeInputs :
            LET reader == decode_one_time_key_message(e)
                p == decrypt(sess[s], "PRE_KEY", e, 16)
                m == decrypt(
                         sess[s], "MESSAGE", MessageBytes(reader.message), 16)
            IN  IF reader.message.present
                THEN /\ p.invoked
                     /\ p.result = m.result
                     /\ p.plaintext = m.plaintext
                     /\ p.session = m.session
                ELSE /\ p.result = ERROR_SENTINEL
                     /\ ~p.invoked
                     /\ p.session
                         = [sess[s] EXCEPT
                               !.last_error = "BAD_MESSAGE_FORMAT"]

\* a session can decrypt an envelope that does not carry its identifiers
C19_Witness ==
    \E s \in Sessions, e \in EnvelopeInputs :
        /\ RatchetInitialised(sess[s].ratchet)
        /\ EnvelopeIdentifiers(e) # Identifiers(sess[s])
        /\ ~matches_inbound_session(sess[s], e)
        /\ decrypt(sess[s], "PRE_KEY", e, 16).result # ERROR_SENTINEL

\* C20: a successful encrypt returns what ratchet.encrypt returned, the
\* length of the inner ratchet message.  Once the session has received a
\* message that is encrypt_message_length of the plaintext; before, it is
\* strictly smaller, the envelope around the ratchet message not counted.
\* A larger output buffer changes nothing of this.
C20_ReturnsRatchetLength ==
    \A s \in Sessions :
        RatchetInitialised(sess[s].ratchet)
        => \A plaintext \in AllPlaintexts, random \in AllEncryptRandoms :
            LET needed == encrypt_message_length(sess[s], Len(plaintext))
                inner == ratchet_encrypt_output_length(
                             sess[s].ratchet, Len(plaintext))
                rr == ratchet_encrypt(
                          sess[s].ratchet, plaintext, random, inner)
            IN  \A extra \in {0, 5} :
                LET r == encrypt(sess[s], plaintext, random, needed + extra)
                IN  /\ r.result = rr.result
                    /\ r.result # ERROR_SENTINEL
                       => /\ r.result = rr.message.length
                          /\ r.result = inner
                          /\ IF sess[s].received_message
                             THEN r.result = needed
                             ELSE r.result < needed

\* a session still in prekey mode that has encrypted and can encrypt
\* again, its message on the wire shorter than encrypt_message_length said
C20_Witness ==
    \E s \in Sessions, m \in wire :
        /\ RatchetInitialised(sess[s].ratchet)
        /\ ~sess[s].received_message
        /\ m.from = s /\ m.type = "PRE_KEY"
        /\ encrypt(sess[s], <<1>>, [length |-> 0, seed |-> 0],
                   encrypt_message_length(sess[s], 1)).result
               < encrypt_message_length(sess[s], 1)

====
